---- MODULE Spec2Model ----
(***************************************************************************)
(* Model of the PrivateNetwork reconciler of scaleway-k8s-vpc              *)
(* (controllers/privatenetwork_controller.go).  One Reconcile pass is a    *)
(* process per PrivateNetwork identity; every call it makes to the object  *)
(* store, the address pool (go-ipam) or the cloud API is one atomic step,  *)
(* taken in the order of the code, and every such call may fail.           *)
(***************************************************************************)
EXTENDS Integers, Sequences, FiniteSets, TLC

(* ------------------------------ bounds -------------------------------- *)
\* addresses of one CIDR block the pool can hand out
MaxIPs == 2
\* failed external calls allowed in a behaviour of LiveSpec
MaxFailures == 1
\* node membership changes allowed in a behaviour of LiveSpec
MaxNodeEvents == 1

(* --------------------------- program constants ------------------------ *)
finalizerName == "scaleway.com/finalizer"
ipFinalizerName == "scaleway.com/finalizer-ip"
\* RequeueDuration, in seconds
RequeueDuration == 30

(* ------------------------------ universe ------------------------------ *)
PNs == {"pn-a", "pn-b"}
\* pn.Spec.CIDR and pn.Spec.ID of each PrivateNetwork (disjoint CIDRs)
Cidr(p) == IF p = "pn-a" THEN "10.0.0.0/24" ELSE "10.0.1.0/24"
NetID(p) == IF p = "pn-a" THEN "net-a" ELSE "net-b"
Cidrs == {Cidr(p) : p \in PNs}

\* the node names of the cluster, in the order a List returns them
NodeOrder == <<"node-1", "node-2">>
Nodes == {NodeOrder[i] : i \in 1..Len(NodeOrder)}

\* a budget of -1 is "no limit"
Unlimited == 0 - 1
None == [none |-> TRUE]

(* ---------------------- provider identifiers -------------------------- *)
\* A provider identifier is a string, modelled as a sequence of tokens:
\* "scaleway:" is one token, "/" is one token, every other token is a run
\* of characters without "/".  The text "scaleway://" is Scheme.
Scheme == <<"scaleway:", "/", "/">>
DefaultZone == <<"fr-par-1">>

\* s[from..to], empty when from > to
Sub(s, from, to) == IF from > to THEN <<>> ELSE SubSeq(s, from, to)

\* positions at which Scheme occurs in s
SchemeAt(s) == {i \in 1..(Len(s) - 2) : Sub(s, i, i + 2) = Scheme}

\* positions of "/" in s
Slashes(s) == {i \in 1..Len(s) : s[i] = "/"}

Min(S) == CHOOSE x \in S : \A y \in S : x <= y

\* F applied to the value of e, which is computed once
Let(e, F(_)) == CHOOSE v \in {F(x) : x \in {e}} : TRUE

\* the groups of the text after "scaleway://": with two "/" or more the
\* first alternative matches (product up to the first "/", localization
\* up to the second, uuid the remainder), otherwise the second (uuid)
ParseRest(rest, slashes) ==
    IF Cardinality(slashes) >= 2
    THEN Let(Min(slashes), LAMBDA s1 :
         Let(Min(slashes \ {s1}), LAMBDA s2 :
             [instanceID |-> Sub(rest, s2 + 1, Len(rest)),
              zone       |-> Sub(rest, s1 + 1, s2 - 1)]))
    ELSE [instanceID |-> rest, zone |-> <<>>]

\* providerIDRegexp applied as in getServerFromNode: the leftmost match of
\* scaleway://((product).*?/(localization).*?/(uuid).*|(uuid).*), first
\* alternative preferred; yields the instanceID and zone the loop over
\* SubexpNames leaves behind (empty groups leave the empty default).
ParseProviderID(providerID) ==
    Let(SchemeAt(providerID), LAMBDA at :
        IF providerID = <<>> \/ at = {}
        THEN [instanceID |-> <<>>, zone |-> <<>>]
        ELSE Let(Sub(providerID, Min(at) + 3, Len(providerID)),
                 LAMBDA rest : ParseRest(rest, Slashes(rest))))

\* the zone a request with an empty Zone is sent to
EffectiveZone(zone) == IF zone = <<>> THEN DefaultZone ELSE zone

\* InstanceAPI.GetServer on the inventory srv: the servers it can return
GetServer(srv, zone, id) ==
    {s \in srv : s.id = id /\ s.zone = EffectiveZone(zone)}

\* InstanceAPI.ListServers filtered by name, on the inventory srv
ListServers(srv, zone, name) ==
    {s \in srv : s.name = name /\ s.zone = EffectiveZone(zone)}

\* result of a failed / successful resolution
ResolveErr(kind) == [ok |-> FALSE, kind |-> kind, server |-> None]
ResolveOk(s) == [ok |-> TRUE, kind |-> "ok", server |-> s]

\* ListFallback taking the first server of a listing of any length
ListFallbackFirst(srv, zone, name, lsOK) ==
    IF ~lsOK THEN ResolveErr("list-error")
    ELSE Let(ListServers(srv, zone, name), LAMBDA found :
             IF found = {}
             THEN ResolveErr("count-mismatch")
             ELSE ResolveOk(CHOOSE s \in found : TRUE))

\* the fallback of getServerFromNode: list by name, demand exactly one
ListFallback(srv, zone, name, lsOK) ==
    IF ~lsOK THEN ResolveErr("list-error")
    ELSE Let(ListServers(srv, zone, name), LAMBDA found :
             IF Cardinality(found) # 1
             THEN ResolveErr("count-mismatch")
             ELSE ResolveOk(CHOOSE s \in found : TRUE))

\* getServerFromNode; gsOK / lsOK say whether the GetServer / ListServers
\* request goes through (FALSE: the call returns a transport error)
getServerFromNode(srv, node, gsOK, lsOK) ==
    Let(ParseProviderID(node.providerID), LAMBDA parsed :
    Let(GetServer(srv, parsed.zone, parsed.instanceID), LAMBDA direct :
        IF parsed.instanceID # <<>> /\ gsOK /\ direct # {}
        THEN ResolveOk(CHOOSE s \in direct : TRUE)
        ELSE ListFallback(srv, parsed.zone, node.name, lsOK)))

(* ------------------------------- state -------------------------------- *)
VARIABLES
    pns,          \* object store: PrivateNetwork records, by name
    nis,          \* object store: the set of NetworkInterface records
    nodes,        \* object store: names of the current Node records
    pool,         \* address pool: per CIDR, whether the prefix exists and
                  \* the addresses handed out
    privateNics,  \* cloud: the private NICs attached to servers
    servers,      \* cloud: the server inventory
    pc,           \* per PrivateNetwork: the call its pass is about to make
    loc,          \* per PrivateNetwork: the local variables of its pass
    result,       \* per PrivateNetwork: what its last finished pass returned
    failBudget,   \* failed calls still allowed (Unlimited: any number)
    nodeBudget,   \* node events still allowed (Unlimited: any number)
    queue,        \* work queue: the requests the Node handlers added and
                  \* no worker has taken yet
    rNode,        \* resolver harness: the node handed to getServerFromNode
    rCalls,       \* resolver harness: which cloud requests go through
    rOut          \* resolver harness: what getServerFromNode returned

storeVars == <<pns, nis, nodes>>
extVars == <<pool, privateNics, servers>>
passVars == <<pc, loc, result>>
envVars == <<failBudget, nodeBudget>>
resolverVars == <<rNode, rCalls, rOut>>
vars == <<pns, nis, nodes, pool, privateNics, servers, pc, loc, result,
          failBudget, nodeBudget, queue, rNode, rCalls, rOut>>

IPs == 1..MaxIPs

\* Node.Spec.ProviderID of each node: node-1 carries the full form,
\* node-2 carries none and is resolved by name
ProviderIDOf(n) ==
    IF n = "node-1"
    THEN Scheme \o <<"instance", "/", "fr-par-2", "/", "srv-1">>
    ELSE <<>>
NodeObj(n) == [name |-> n, providerID |-> ProviderIDOf(n)]

\* the servers backing the cluster nodes
ClusterServers ==
    {[id |-> <<"srv-1">>, zone |-> <<"fr-par-2">>, name |-> "node-1"],
     [id |-> <<"srv-2">>, zone |-> DefaultZone, name |-> "node-2"]}

\* a PrivateNetwork record that is not in the store
AbsentPN == [exists |-> FALSE, deleted |-> FALSE, finalizers |-> {}]
\* a freshly created PrivateNetwork: no finalizer, no deletion timestamp
NewPN == [exists |-> TRUE, deleted |-> FALSE, finalizers |-> {}]

\* the local variables of a pass that is not running: pn is the fetched
\* PrivateNetwork, nodes / nics the listings, i the position of the loop,
\* server the resolved server, found the id of the private NIC seen on it
\* (0: none), nic the id of privateNIC, ip the acquired address, obj the
\* created NetworkInterface
NoLoc == [pn |-> AbsentPN, nodes |-> <<>>, i |-> 0, nics |-> <<>>,
          server |-> None, found |-> 0, nic |-> 0, ip |-> 0, obj |-> None]

\* ctrl.Result and error of a finished pass.  step is the call the pass
\* ended at; cause is "" when no call of the pass failed, and otherwise
\* says how the failing call came out ("error", "not-found", "conflict",
\* "exhausted", "resolve", "count")
Result(requeueAfter, err, step, cause) ==
    [RequeueAfter |-> requeueAfter, err |-> err, step |-> step,
     cause |-> cause]

(* --------------------------- object store ----------------------------- *)
\* controllerutil.ContainsFinalizer, AddFinalizer and RemoveFinalizer
ContainsFinalizer(o, f) == f \in o.finalizers
WithFinalizer(o, f) == [o EXCEPT !.finalizers = @ \cup {f}]
WithoutFinalizer(o, f) == [o EXCEPT !.finalizers = @ \ {f}]

\* a record whose finalizers are gone is physically removed once it
\* carries a deletion timestamp
Finalize(S) == {n \in S : ~(n.deleted /\ n.finalizers = {})}
FinalizePN(r) == IF r.deleted /\ r.finalizers = {} THEN AbsentPN ELSE r

\* names are generated; a new record gets the smallest unused one
NewName == Min({k \in 1..(Cardinality(nis) + 1) :
                  \A n \in nis : n.name # k})

\* the records of S ordered by name, as a List call returns them
RECURSIVE SortByName(_)
SortByName(S) ==
    IF S = {} THEN <<>>
    ELSE LET first == CHOOSE n \in S : \A m \in S : n.name <= m.name
         IN  <<first>> \o SortByName(S \ {first})

\* List with MatchingLabels{private-network: p}
ListChildren(p) == SortByName({n \in nis : n.pn = p})
\* ListForNode with the node label compared to the network name
ListForNodeWrongLabel(p, nd) ==
    SortByName({n \in nis : n.pn = p /\ n.node = p})

\* List with MatchingLabels{private-network: p, node: nd}
ListForNode(p, nd) == SortByName({n \in nis : n.pn = p /\ n.node = nd})
\* List of the Node records
ListNodes == SelectSeq(NodeOrder, LAMBDA n : n \in nodes)

\* constructNetworkInterfaceForPrivateNetwork, completed with the address
\* and NIC id the caller sets before Create; the name (0: none yet) is
\* generated by the store.  pn and node are the labels private-network
\* and node, nodeName is Spec.NodeName, owner the controller reference,
\* mac is Status.MacAddress (0: not populated)
\* nic.Spec.Address: ip.IP.String() + "/" + the mask length of the prefix
MaskOf(cidr) == "24"
FormatAddress(ip, cidr) == <<ToString(ip), "/", MaskOf(cidr)>>
\* strings.Split(address, "/")[0]
SplitAddress(address) ==
    IF Slashes(address) = {} THEN address
    ELSE Sub(address, 1, Min(Slashes(address)) - 1)

\* constructNetworkInterfaceForPrivateNetwork without the call of
\* SetControllerReference
constructWithoutOwner(p, nodeName, address, nicID) ==
    [name |-> 0, pn |-> p, node |-> nodeName, nodeName |-> nodeName,
     owner |-> "",
     address |-> address, nicID |-> nicID, mac |-> 0,
     deleted |-> FALSE, finalizers |-> {finalizerName, ipFinalizerName}]

constructNetworkInterfaceForPrivateNetwork(p, nodeName, address, nicID) ==
    [name |-> 0, pn |-> p, node |-> nodeName, nodeName |-> nodeName,
     owner |-> p,
     address |-> address, nicID |-> nicID, mac |-> 0,
     deleted |-> FALSE, finalizers |-> {finalizerName, ipFinalizerName}]

(* ------------------------------- cloud -------------------------------- *)
\* server.PrivateNics of a server as GetServer / ListServers returns it
PrivateNicsOf(s) == {c \in privateNics : c.server = s.id}
NewNicID == Min({k \in 1..(Cardinality(privateNics) + 1) :
                   \A c \in privateNics : c.id # k})
\* the MAC address the cloud gives the NIC with this id
MacOf(id) == 100 + id

\* FindPrivateNIC comparing the NIC id with the network id
FindPrivateNICWrongField(nicsOfServer, netID) ==
    LET match == {c \in nicsOfServer : ToString(c.id) = netID}
    IN  IF match = {} THEN 0 ELSE Min({c.id : c \in match})

\* the loop over server.PrivateNics: the id of the first NIC attached to
\* the network netID, 0 when there is none
FindPrivateNIC(nicsOfServer, netID) ==
    LET match == {c \in nicsOfServer : c.netID = netID}
    IN  IF match = {} THEN 0 ELSE Min({c.id : c \in match})

(* -------------------------------- Init -------------------------------- *)
\* no pass is running; only the identities the store has ever held get
\* reconcile requests
InitPass ==
    /\ pc = [p \in DOMAIN pns |-> "idle"]
    /\ loc = [p \in DOMAIN pns |-> NoLoc]
    /\ result = [p \in DOMAIN pns |-> None]

InitResolverIdle ==
    /\ rNode = None
    /\ rCalls = None
    /\ rOut = None

\* pn-a has just been created by an operator; pn-b never existed
InitStore ==
    /\ pns = [p \in {"pn-a"} |-> NewPN]
    /\ nis = {}
    /\ nodes = {"node-1"}
    /\ pool = [c \in Cidrs |-> [exists |-> FALSE, used |-> {}]]
    /\ privateNics = {}

Init ==
    /\ InitStore
    /\ servers = ClusterServers
    /\ InitPass
    /\ InitResolverIdle
    /\ failBudget = Unlimited
    /\ nodeBudget = Unlimited
    /\ queue = {}

(* ------------------------- pass bookkeeping --------------------------- *)
CanFail == failBudget # 0
SpendFailure ==
    failBudget' = IF failBudget > 0 THEN failBudget - 1 ELSE failBudget

\* the pass of p goes on to the call label with the local variables l
Goto(p, label, l) ==
    /\ pc' = [pc EXCEPT ![p] = label]
    /\ loc' = [loc EXCEPT ![p] = l]
    /\ UNCHANGED result

\* the pass of p returns res
End(p, res) ==
    /\ pc' = [pc EXCEPT ![p] = "idle"]
    /\ loc' = [loc EXCEPT ![p] = NoLoc]
    /\ result' = [result EXCEPT ![p] = res]

\* a call of the pass fails with a transport error and the pass returns
\* (ctrl.Result{RequeueAfter: requeueAfter}, err)
FailCall(p, requeueAfter, step) ==
    /\ CanFail
    /\ SpendFailure
    /\ End(p, Result(requeueAfter, TRUE, step, "error"))

(* ------------------ Reconcile: common head (l. 357-378) ---------------- *)
\* Get going on to NewPrefix when the PrivateNetwork is not found
GetIgnoreMissing(p) ==
    /\ pc[p] = "idle"
    /\ queue' = queue \ {p}
    /\ \/ /\ FailCall(p, 0, "Get")
       \/ /\ pc' = [pc EXCEPT ![p] = "NewPrefix"]
          /\ loc' = [loc EXCEPT ![p] = [NoLoc EXCEPT !.pn = pns[p]]]
          /\ result' = [result EXCEPT ![p] = None]
          /\ UNCHANGED failBudget
    /\ UNCHANGED <<storeVars, extVars, nodeBudget, resolverVars>>

\* a worker takes the request of p, if the queue holds one, and Reconcile
\* starts (requests that come from the watches on PrivateNetwork and
\* NetworkInterface records and from retries are not kept in queue: a
\* pass may start at any time): r.Get(ctx, req.NamespacedName, pn)
Get(p) ==
    /\ pc[p] = "idle"
    /\ queue' = queue \ {p}
    /\ \/ /\ FailCall(p, 0, "Get")
       \/ /\ ~pns[p].exists
          /\ End(p, Result(0, FALSE, "Get", ""))
          /\ UNCHANGED failBudget
       \/ /\ pns[p].exists
          /\ pc' = [pc EXCEPT ![p] = "NewPrefix"]
          /\ loc' = [loc EXCEPT ![p] = [NoLoc EXCEPT !.pn = pns[p]]]
          /\ result' = [result EXCEPT ![p] = None]
          /\ UNCHANGED failBudget
    /\ UNCHANGED <<storeVars, extVars, nodeBudget, resolverVars>>

\* AfterNewPrefix going on without adding the finalizer
AfterNewPrefixNoFinalizer(p, l) ==
    IF ~l.pn.deleted
    THEN Goto(p, "GetPrivateNetwork", l)
    ELSE IF ContainsFinalizer(l.pn, finalizerName)
         THEN Goto(p, "ListChildren", l)
         ELSE End(p, Result(0, FALSE, "NewPrefix", ""))

\* where the pass goes once the prefix is there: the branch on the
\* deletion timestamp and on the finalizer of the fetched pn
AfterNewPrefix(p, l) ==
    IF ~l.pn.deleted
    THEN IF ~ContainsFinalizer(l.pn, finalizerName)
         THEN Goto(p, "AddFinalizer", l)
         ELSE Goto(p, "GetPrivateNetwork", l)
    ELSE IF ContainsFinalizer(l.pn, finalizerName)
         THEN Goto(p, "ListChildren", l)
         ELSE End(p, Result(0, FALSE, "NewPrefix", ""))

\* r.IPAM.NewPrefix(pn.Spec.CIDR): idempotent
NewPrefix(p) ==
    /\ pc[p] = "NewPrefix"
    /\ \/ /\ FailCall(p, 0, "NewPrefix")
          /\ UNCHANGED pool
       \/ /\ pool' = [pool EXCEPT ![Cidr(p)].exists = TRUE]
          /\ AfterNewPrefix(p, loc[p])
          /\ UNCHANGED failBudget
    /\ UNCHANGED <<storeVars, privateNics, servers, nodeBudget, queue, resolverVars>>

\* controllerutil.AddFinalizer(pn, finalizerName); r.Update(ctx, pn)
AddFinalizer(p) ==
    /\ pc[p] = "AddFinalizer"
    /\ \/ /\ FailCall(p, 0, "AddFinalizer")
          /\ UNCHANGED pns
       \/ /\ pns[p] # loc[p].pn
          /\ End(p, Result(0, TRUE, "AddFinalizer", "conflict"))
          /\ UNCHANGED <<pns, failBudget>>
       \/ /\ pns[p] = loc[p].pn
          /\ pns' = [pns EXCEPT ![p] = WithFinalizer(loc[p].pn, finalizerName)]
          /\ Goto(p, "GetPrivateNetwork",
                  [loc[p] EXCEPT !.pn = WithFinalizer(@, finalizerName)])
          /\ UNCHANGED failBudget
    /\ UNCHANGED <<nis, nodes, extVars, nodeBudget, queue, resolverVars>>

(* ---------------- Reconcile: normal branch (l. 470-565) ---------------- *)
\* r.VpcAPI.GetPrivateNetwork
GetPrivateNetwork(p) ==
    /\ pc[p] = "GetPrivateNetwork"
    /\ \/ FailCall(p, RequeueDuration, "GetPrivateNetwork")
       \/ /\ Goto(p, "ListNodes", loc[p])
          /\ UNCHANGED failBudget
    /\ UNCHANGED <<storeVars, extVars, nodeBudget, queue, resolverVars>>

\* NextNode leaving the loop after the first node
NextNodeFirstOnly(p, l, step) ==
    IF l.i >= 1 \/ Len(l.nodes) = 0
    THEN End(p, Result(0, FALSE, step, ""))
    ELSE Goto(p, "ListNics",
              [l EXCEPT !.i = l.i + 1, !.nics = <<>>, !.server = None,
                        !.found = 0, !.nic = 0, !.ip = 0, !.obj = None])

\* the loop over nodesList.Items moves to the next node, or the pass
\* returns ctrl.Result{}, nil after the last one
NextNode(p, l, step) ==
    IF l.i >= Len(l.nodes)
    THEN End(p, Result(0, FALSE, step, ""))
    ELSE Goto(p, "ListNics",
              [l EXCEPT !.i = l.i + 1, !.nics = <<>>, !.server = None,
                        !.found = 0, !.nic = 0, !.ip = 0, !.obj = None])

\* r.Client.List(ctx, nodesList)
ListNodesCall(p) ==
    /\ pc[p] = "ListNodes"
    /\ \/ FailCall(p, RequeueDuration, "ListNodes")
       \/ /\ NextNode(p, [loc[p] EXCEPT !.nodes = ListNodes, !.i = 0],
                      "ListNodes")
          /\ UNCHANGED failBudget
    /\ UNCHANGED <<storeVars, extVars, nodeBudget, queue, resolverVars>>

\* r.Client.List(ctx, nicsList, MatchingLabels{pn.Name, node.Name})
ListNics(p) ==
    /\ pc[p] = "ListNics"
    /\ \/ FailCall(p, RequeueDuration, "ListNics")
       \/ /\ Goto(p, "getServerFromNode",
                  [loc[p] EXCEPT
                     !.nics = ListForNode(p, loc[p].nodes[loc[p].i])])
          /\ UNCHANGED failBudget
    /\ UNCHANGED <<storeVars, extVars, nodeBudget, queue, resolverVars>>

\* AfterPrivateNIC without the check len(nicsList.Items) > 1
AfterPrivateNICNoCount(p, l, step) ==
    IF Len(l.nics) = 0
    THEN Goto(p, "AcquireIP", l)
    ELSE NextNode(p, l, step)

\* the checks on len(nicsList.Items) once privateNIC is known
AfterPrivateNIC(p, l, step) ==
    IF Len(l.nics) > 1
    THEN End(p, Result(RequeueDuration, FALSE, step, "count"))
    ELSE IF Len(l.nics) = 0
         THEN Goto(p, "AcquireIP", l)
         ELSE NextNode(p, l, step)

\* r.getServerFromNode(&node) and the search of server.PrivateNics
ResolveNode(p) ==
    /\ pc[p] = "getServerFromNode"
    /\ \E gsOK \in BOOLEAN, lsOK \in BOOLEAN :
         \E r \in {getServerFromNode(servers,
                                     NodeObj(loc[p].nodes[loc[p].i]),
                                     gsOK, lsOK)} :
             /\ IF gsOK /\ lsOK
                THEN UNCHANGED failBudget
                ELSE CanFail /\ SpendFailure
             /\ IF ~r.ok
                THEN \* break: the final return of the pass
                     End(p, Result(0, FALSE, "getServerFromNode", "resolve"))
                ELSE \E found \in {FindPrivateNIC(PrivateNicsOf(r.server),
                                                  NetID(p))} :
                       \E l \in {[loc[p] EXCEPT !.server = r.server,
                                                !.found = found,
                                                !.nic = found]} :
                         IF found = 0
                         THEN Goto(p, "CreatePrivateNIC", l)
                         ELSE AfterPrivateNIC(p, l, "getServerFromNode")
    /\ UNCHANGED <<storeVars, extVars, nodeBudget, queue, resolverVars>>

\* r.InstanceAPI.CreatePrivateNIC
CreatePrivateNIC(p) ==
    /\ pc[p] = "CreatePrivateNIC"
    /\ \/ /\ FailCall(p, RequeueDuration, "CreatePrivateNIC")
          /\ UNCHANGED privateNics
       \/ /\ privateNics' = privateNics \cup
                {[id |-> NewNicID, server |-> loc[p].server.id,
                  netID |-> NetID(p)]}
          /\ AfterPrivateNIC(p, [loc[p] EXCEPT !.nic = NewNicID],
                             "CreatePrivateNIC")
          /\ UNCHANGED failBudget
    /\ UNCHANGED <<storeVars, pool, servers, nodeBudget, queue, resolverVars>>

\* AcquireIP handing out the first address of the prefix, used or not
AcquireIPFirstAddress(p) ==
    /\ pc[p] = "AcquireIP"
    /\ \/ /\ FailCall(p, RequeueDuration, "AcquireIP")
          /\ UNCHANGED pool
       \/ /\ ~pool[Cidr(p)].exists
          /\ End(p, Result(RequeueDuration, TRUE, "AcquireIP", "not-found"))
          /\ UNCHANGED <<pool, failBudget>>
       \/ /\ pool[Cidr(p)].exists
          /\ pool' = [pool EXCEPT ![Cidr(p)].used = @ \cup {Min(IPs)}]
          /\ Goto(p, "Create", [loc[p] EXCEPT !.ip = Min(IPs)])
          /\ UNCHANGED failBudget
    /\ UNCHANGED <<storeVars, privateNics, servers, nodeBudget, queue,
                   resolverVars>>

\* r.IPAM.AcquireIP(prefix.Cidr): the first free address of the prefix
AcquireIP(p) ==
    /\ pc[p] = "AcquireIP"
    /\ LET free == IPs \ pool[Cidr(p)].used
       IN  \/ /\ FailCall(p, RequeueDuration, "AcquireIP")
              /\ UNCHANGED pool
           \/ /\ ~pool[Cidr(p)].exists
              /\ End(p, Result(RequeueDuration, TRUE, "AcquireIP",
                               "not-found"))
              /\ UNCHANGED <<pool, failBudget>>
           \/ /\ pool[Cidr(p)].exists
              /\ free = {}
              /\ End(p, Result(RequeueDuration, TRUE, "AcquireIP",
                               "exhausted"))
              /\ UNCHANGED <<pool, failBudget>>
           \/ /\ pool[Cidr(p)].exists
              /\ free # {}
              /\ pool' = [pool EXCEPT ![Cidr(p)].used = @ \cup {Min(free)}]
              /\ Goto(p, "Create", [loc[p] EXCEPT !.ip = Min(free)])
              /\ UNCHANGED failBudget
    /\ UNCHANGED <<storeVars, privateNics, servers, nodeBudget, queue, resolverVars>>

\* r.Client.Create(ctx, nic)
Create(p) ==
    /\ pc[p] = "Create"
    /\ \/ /\ FailCall(p, RequeueDuration, "Create")
          /\ UNCHANGED nis
       \/ LET obj == [constructNetworkInterfaceForPrivateNetwork(
                         p, loc[p].nodes[loc[p].i],
                         FormatAddress(loc[p].ip, Cidr(p)), loc[p].nic)
                     EXCEPT !.name = NewName]
          IN  /\ nis' = nis \cup {obj}
              /\ Goto(p, "StatusUpdate", [loc[p] EXCEPT !.obj = obj])
              /\ UNCHANGED failBudget
    /\ UNCHANGED <<pns, nodes, extVars, nodeBudget, queue, resolverVars>>

\* nic.Status.MacAddress = privateNIC.MacAddress; r.Client.Status().Update
StatusUpdate(p) ==
    /\ pc[p] = "StatusUpdate"
    /\ \/ /\ FailCall(p, RequeueDuration, "StatusUpdate")
          /\ UNCHANGED nis
       \/ /\ loc[p].obj \notin nis
          /\ End(p, Result(RequeueDuration, TRUE, "StatusUpdate", "conflict"))
          /\ UNCHANGED <<nis, failBudget>>
       \/ /\ loc[p].obj \in nis
          /\ nis' = (nis \ {loc[p].obj}) \cup
                      {[loc[p].obj EXCEPT !.mac = MacOf(loc[p].nic)]}
          /\ NextNode(p, loc[p], "StatusUpdate")
          /\ UNCHANGED failBudget
    /\ UNCHANGED <<pns, nodes, extVars, nodeBudget, queue, resolverVars>>

(* --------------- Reconcile: deletion branch (l. 379-469) --------------- *)
\* Pending without the check of the generic finalizer
PendingNoFinalizerCheck(l, i) == i..Len(l.nics)

\* Pending without the branch for children that carry a deletion timestamp
PendingOnlyUnmarked(l, i) == {k \in i..Len(l.nics) : ~l.nics[k].deleted}

\* the children at or after position i of the listing that the loop acts on
Pending(l, i) ==
    {k \in i..Len(l.nics) :
        \/ ~l.nics[k].deleted
        \/ ~ContainsFinalizer(l.nics[k], finalizerName)}

\* ChildLoop without the check len(nicsList.Items) == 0
ChildLoopNoEmptyCheck(p, l, i, step) ==
    IF Pending(l, i) # {}
    THEN LET k == Min(Pending(l, i))
         IN  IF ~l.nics[k].deleted
             THEN Goto(p, "Delete", [l EXCEPT !.i = k])
             ELSE Goto(p, "ReleaseIPFromPrefix", [l EXCEPT !.i = k])
    ELSE Goto(p, "DeletePrefix", l)

\* ChildLoop returning ctrl.Result{}, nil after a non-empty listing
ChildLoopNoRequeue(p, l, i, step) ==
    IF Pending(l, i) # {}
    THEN LET k == Min(Pending(l, i))
         IN  IF ~l.nics[k].deleted
             THEN Goto(p, "Delete", [l EXCEPT !.i = k])
             ELSE Goto(p, "ReleaseIPFromPrefix", [l EXCEPT !.i = k])
    ELSE IF Len(l.nics) = 0
         THEN Goto(p, "DeletePrefix", l)
         ELSE End(p, Result(0, FALSE, step, ""))

\* the loop over nicsList.Items from position i on: the next child that
\* gets a call, and after the last one the check len(nicsList.Items) == 0
ChildLoop(p, l, i, step) ==
    IF Pending(l, i) # {}
    THEN LET k == Min(Pending(l, i))
         IN  IF ~l.nics[k].deleted
             THEN Goto(p, "Delete", [l EXCEPT !.i = k])
             ELSE Goto(p, "ReleaseIPFromPrefix", [l EXCEPT !.i = k])
    ELSE IF Len(l.nics) = 0
         THEN Goto(p, "DeletePrefix", l)
         ELSE End(p, Result(RequeueDuration, FALSE, step, ""))

\* r.Client.List(ctx, nicsList, MatchingLabels{pn.Name})
ListChildrenCall(p) ==
    /\ pc[p] = "ListChildren"
    /\ \/ FailCall(p, 0, "ListChildren")
       \/ /\ ChildLoop(p, [loc[p] EXCEPT !.nics = ListChildren(p)], 1,
                       "ListChildren")
          /\ UNCHANGED failBudget
    /\ UNCHANGED <<storeVars, extVars, nodeBudget, queue, resolverVars>>

\* the child the loop is at
Child(p) == loc[p].nics[loc[p].i]
\* the record of the store that carries the name of that child
Stored(p) == {n \in nis : n.name = Child(p).name}

\* r.Client.Delete(ctx, &nic): sets the deletion timestamp
DeleteChild(p) ==
    /\ pc[p] = "Delete"
    /\ \/ /\ FailCall(p, 0, "Delete")
          /\ UNCHANGED nis
       \/ /\ Stored(p) = {}
          /\ End(p, Result(0, TRUE, "Delete", "not-found"))
          /\ UNCHANGED <<nis, failBudget>>
       \/ /\ Stored(p) # {}
          /\ nis' = Finalize({IF n.name = Child(p).name
                              THEN [n EXCEPT !.deleted = TRUE] ELSE n
                              : n \in nis})
          /\ ChildLoop(p, loc[p], loc[p].i + 1, "Delete")
          /\ UNCHANGED failBudget
    /\ UNCHANGED <<pns, nodes, extVars, nodeBudget, queue, resolverVars>>

\* the address of the pool that an address string names (none: {})
ParseIP(str) == {k \in IPs : <<ToString(k)>> = str}

\* r.IPAM.ReleaseIPFromPrefix(cidr, strings.Split(nic.Spec.Address, "/")[0])
\* a NotFoundError is ignored
ReleaseIPFromPrefix(p) ==
    /\ pc[p] = "ReleaseIPFromPrefix"
    /\ \/ /\ FailCall(p, 0, "ReleaseIPFromPrefix")
          /\ UNCHANGED pool
       \/ /\ pool' = [pool EXCEPT ![Cidr(p)].used =
                         @ \ ParseIP(SplitAddress(Child(p).address))]
          /\ Goto(p, "GetNode", loc[p])
          /\ UNCHANGED failBudget
    /\ UNCHANGED <<storeVars, privateNics, servers, nodeBudget, queue, resolverVars>>

\* r.Client.Get(ctx, NamespacedName{Name: nic.Spec.NodeName}, &node)
GetNode(p) ==
    /\ pc[p] = "GetNode"
    /\ \/ FailCall(p, 0, "GetNode")
       \/ /\ Child(p).nodeName \notin nodes
          /\ Goto(p, "Update", loc[p])
          /\ UNCHANGED failBudget
       \/ /\ Child(p).nodeName \in nodes
          /\ Goto(p, "getServerFromNode/deletion", loc[p])
          /\ UNCHANGED failBudget
    /\ UNCHANGED <<storeVars, extVars, nodeBudget, queue, resolverVars>>

\* ResolveNodeDeletion going on to the finalizer when the resolution fails
ResolveNodeDeletionIgnoreError(p) ==
    /\ pc[p] = "getServerFromNode/deletion"
    /\ \E gsOK \in BOOLEAN, lsOK \in BOOLEAN :
         \E r \in {getServerFromNode(servers, NodeObj(Child(p).nodeName),
                                     gsOK, lsOK)} :
             /\ IF gsOK /\ lsOK
                THEN UNCHANGED failBudget
                ELSE CanFail /\ SpendFailure
             /\ IF ~r.ok
                THEN Goto(p, "Update", loc[p])
                ELSE \E found \in {FindPrivateNIC(PrivateNicsOf(r.server),
                                                  NetID(p))} :
                       \E l \in {[loc[p] EXCEPT !.server = r.server,
                                                !.found = found,
                                                !.nic = found]} :
                         IF found # 0
                         THEN Goto(p, "DeletePrivateNIC", l)
                         ELSE Goto(p, "Update", l)
    /\ UNCHANGED <<storeVars, extVars, nodeBudget, queue, resolverVars>>

\* r.getServerFromNode(&node) and the search of server.PrivateNics
ResolveNodeDeletion(p) ==
    /\ pc[p] = "getServerFromNode/deletion"
    /\ \E gsOK \in BOOLEAN, lsOK \in BOOLEAN :
         \E r \in {getServerFromNode(servers, NodeObj(Child(p).nodeName),
                                     gsOK, lsOK)} :
             /\ IF gsOK /\ lsOK
                THEN UNCHANGED failBudget
                ELSE CanFail /\ SpendFailure
             /\ IF ~r.ok
                THEN End(p, Result(0, TRUE, "getServerFromNode/deletion",
                                   "resolve"))
                ELSE \E found \in {FindPrivateNIC(PrivateNicsOf(r.server),
                                                  NetID(p))} :
                       \E l \in {[loc[p] EXCEPT !.server = r.server,
                                                !.found = found,
                                                !.nic = found]} :
                         IF found # 0
                         THEN Goto(p, "DeletePrivateNIC", l)
                         ELSE Goto(p, "Update", l)
    /\ UNCHANGED <<storeVars, extVars, nodeBudget, queue, resolverVars>>

\* r.InstanceAPI.DeletePrivateNIC: any error, a 404 included, is returned
DeletePrivateNIC(p) ==
    /\ pc[p] = "DeletePrivateNIC"
    /\ LET target == {c \in privateNics : c.id = loc[p].nic}
       IN  \/ /\ FailCall(p, 0, "DeletePrivateNIC")
              /\ UNCHANGED privateNics
           \/ /\ target = {}
              /\ End(p, Result(0, TRUE, "DeletePrivateNIC", "not-found"))
              /\ UNCHANGED <<privateNics, failBudget>>
           \/ /\ target # {}
              /\ privateNics' = privateNics \ target
              /\ Goto(p, "Update", loc[p])
              /\ UNCHANGED failBudget
    /\ UNCHANGED <<storeVars, pool, servers, nodeBudget, queue, resolverVars>>

\* controllerutil.RemoveFinalizer(&nic, ipFinalizerName); r.Client.Update
UpdateChild(p) ==
    /\ pc[p] = "Update"
    /\ \/ /\ FailCall(p, 0, "Update")
          /\ UNCHANGED nis
       \/ /\ Child(p) \notin nis
          /\ End(p, Result(0, TRUE, "Update", "conflict"))
          /\ UNCHANGED <<nis, failBudget>>
       \/ /\ Child(p) \in nis
          /\ nis' = Finalize((nis \ {Child(p)}) \cup
                               {WithoutFinalizer(Child(p), ipFinalizerName)})
          /\ ChildLoop(p, loc[p], loc[p].i + 1, "Update")
          /\ UNCHANGED failBudget
    /\ UNCHANGED <<pns, nodes, extVars, nodeBudget, queue, resolverVars>>

\* r.IPAM.DeletePrefix(pn.Spec.CIDR): a NotFoundError is ignored
DeletePrefix(p) ==
    /\ pc[p] = "DeletePrefix"
    /\ \/ /\ FailCall(p, 0, "DeletePrefix")
          /\ UNCHANGED pool
       \/ /\ pool' = [pool EXCEPT ![Cidr(p)] =
                         [exists |-> FALSE, used |-> {}]]
          /\ Goto(p, "RemoveFinalizer", loc[p])
          /\ UNCHANGED failBudget
    /\ UNCHANGED <<storeVars, privateNics, servers, nodeBudget, queue, resolverVars>>

\* controllerutil.RemoveFinalizer(pn, finalizerName); r.Update(ctx, pn)
RemoveFinalizer(p) ==
    /\ pc[p] = "RemoveFinalizer"
    /\ \/ /\ FailCall(p, 0, "RemoveFinalizer")
          /\ UNCHANGED pns
       \/ /\ pns[p] # loc[p].pn
          /\ End(p, Result(0, TRUE, "RemoveFinalizer", "conflict"))
          /\ UNCHANGED <<pns, failBudget>>
       \/ /\ pns[p] = loc[p].pn
          /\ pns' = [pns EXCEPT ![p] =
                        FinalizePN(WithoutFinalizer(loc[p].pn, finalizerName))]
          /\ End(p, Result(0, FALSE, "RemoveFinalizer", ""))
          /\ UNCHANGED failBudget
    /\ UNCHANGED <<nis, nodes, extVars, nodeBudget, queue, resolverVars>>

\* one step of the pass of p outside the deletion branch
Synchronize(p) ==
    \/ Get(p) \/ NewPrefix(p) \/ AddFinalizer(p)
    \/ GetPrivateNetwork(p) \/ ListNodesCall(p) \/ ListNics(p)
    \/ ResolveNode(p) \/ CreatePrivateNIC(p) \/ AcquireIP(p)
    \/ Create(p) \/ StatusUpdate(p)

\* one step of the pass of p in the deletion branch
Teardown(p) ==
    \/ ListChildrenCall(p) \/ DeleteChild(p) \/ ReleaseIPFromPrefix(p)
    \/ GetNode(p) \/ ResolveNodeDeletion(p) \/ DeletePrivateNIC(p)
    \/ UpdateChild(p) \/ DeletePrefix(p) \/ RemoveFinalizer(p)

\* one step of the Reconcile pass of p
Reconcile(p) == Synchronize(p) \/ Teardown(p)

(* ---------------------------- environment ----------------------------- *)
\* an operator deletes the PrivateNetwork: the store sets the deletion
\* timestamp, and removes the record when it carries no finalizer
DeletePrivateNetwork(p) ==
    /\ pns[p].exists
    /\ ~pns[p].deleted
    /\ pns' = [pns EXCEPT ![p] = FinalizePN([@ EXCEPT !.deleted = TRUE])]
    /\ UNCHANGED <<nis, nodes, extVars, passVars, envVars, queue, resolverVars>>

\* the NetworkInterface controller clears the generic finalizer of a
\* NetworkInterface that carries a deletion timestamp
ClearGenericFinalizer(n) ==
    /\ n \in nis
    /\ n.deleted
    /\ ContainsFinalizer(n, finalizerName)
    /\ nis' = Finalize((nis \ {n}) \cup {WithoutFinalizer(n, finalizerName)})
    /\ UNCHANGED <<pns, nodes, extVars, passVars, envVars, queue, resolverVars>>

SpendNodeEvent ==
    /\ nodeBudget # 0
    /\ nodeBudget' = IF nodeBudget > 0 THEN nodeBudget - 1 ELSE nodeBudget

\* r.Client.List(ctx, pnsList): the PrivateNetwork records of the store
ListPrivateNetworks == {p \in DOMAIN pns : pns[p].exists}

\* CreateFunc adding a request for every name the store has ever held
CreateFuncKnownNames ==
    \/ /\ CanFail
       /\ SpendFailure
       /\ UNCHANGED queue
    \/ /\ queue' = queue \cup DOMAIN pns
       /\ UNCHANGED failBudget

\* handler.Funcs.CreateFunc: list the PrivateNetworks, return when the
\* listing fails, otherwise q.Add a request for each of them (the queue
\* keeps one request per name)
CreateFunc ==
    \/ /\ CanFail
       /\ SpendFailure
       /\ UNCHANGED queue
    \/ /\ queue' = queue \cup ListPrivateNetworks
       /\ UNCHANGED failBudget

\* handler.Funcs.DeleteFunc: the same body
DeleteFunc ==
    \/ /\ CanFail
       /\ SpendFailure
       /\ UNCHANGED queue
    \/ /\ queue' = queue \cup ListPrivateNetworks
       /\ UNCHANGED failBudget

\* a node joins the cluster and the watch hands the event to CreateFunc
NodeCreate(n) ==
    /\ n \notin nodes
    /\ SpendNodeEvent
    /\ nodes' = nodes \cup {n}
    /\ CreateFunc
    /\ UNCHANGED <<pns, nis, extVars, passVars, resolverVars>>

\* a node leaves the cluster and the watch hands the event to DeleteFunc
NodeDelete(n) ==
    /\ n \in nodes
    /\ SpendNodeEvent
    /\ nodes' = nodes \ {n}
    /\ DeleteFunc
    /\ UNCHANGED <<pns, nis, extVars, passVars, resolverVars>>

\* a private NIC is detached at the cloud by someone else
DetachPrivateNIC(c) ==
    /\ c \in privateNics
    /\ privateNics' = privateNics \ {c}
    /\ UNCHANGED <<storeVars, pool, servers, passVars, envVars, queue, resolverVars>>

Environment ==
    \/ \E p \in DOMAIN pns : DeletePrivateNetwork(p)
    \/ \E n \in nis : ClearGenericFinalizer(n)
    \/ \E n \in Nodes : NodeCreate(n)
    \/ \E n \in Nodes : NodeDelete(n)
    \/ \E c \in privateNics : DetachPrivateNIC(c)

Next ==
    \/ \E p \in DOMAIN pns : Reconcile(p)
    \/ Environment

Spec == Init /\ [][Next]_vars

(* ------------------------------ liveness ------------------------------ *)
\* as Init, with finitely many failing calls and node events to come
InitLive ==
    /\ InitStore
    /\ servers = ClusterServers
    /\ InitPass
    /\ InitResolverIdle
    /\ failBudget = MaxFailures
    /\ nodeBudget = MaxNodeEvents
    /\ queue = {}

\* the work queue keeps handing the PrivateNetwork to Reconcile, and a
\* pass that has started runs to its return
LiveSpec ==
    /\ InitLive
    /\ [][Next]_vars
    /\ WF_vars(\E p \in DOMAIN pns : Reconcile(p))

\* as LiveSpec, and the NetworkInterface controller eventually clears the
\* generic finalizer of a NetworkInterface that is marked for deletion
DeletionSpec ==
    /\ InitLive
    /\ [][Next]_vars
    /\ WF_vars(\E p \in DOMAIN pns : Reconcile(p))
    /\ WF_vars(\E n \in nis : ClearGenericFinalizer(n))

(* ------------------------ two PrivateNetworks -------------------------- *)
\* the server a node runs on
ServerOf(nd) == CHOOSE sv \in ClusterServers : sv.name = nd

\* the NetworkInterface a finished pass of p leaves for node nd, with the
\* address ip and the private NIC nicID
SyncedNIOf(p, name, nd, ip, nicID) ==
    [constructNetworkInterfaceForPrivateNetwork(
         p, nd, FormatAddress(ip, Cidr(p)), nicID)
     EXCEPT !.name = name, !.mac = MacOf(nicID)]

\* pn-a has just been created; pn-b was reconciled, its NetworkInterface
\* for node-1 holds the first address of its prefix, and an operator has
\* just deleted it; finitely many node events are to come and no call
\* fails in transport (conflicts and not-found answers still occur)
InitConc ==
    /\ pns = [p \in PNs |->
                IF p = "pn-a" THEN NewPN
                ELSE [WithFinalizer(NewPN, finalizerName)
                        EXCEPT !.deleted = TRUE]]
    /\ nis = {SyncedNIOf("pn-b", 1, "node-1", 1, 1)}
    /\ nodes = {"node-1"}
    /\ pool = [c \in Cidrs |->
                 IF c = Cidr("pn-b") THEN [exists |-> TRUE, used |-> {1}]
                 ELSE [exists |-> FALSE, used |-> {}]]
    /\ privateNics = {[id |-> 1, server |-> ServerOf("node-1").id,
                       netID |-> NetID("pn-b")]}
    /\ servers = ClusterServers
    /\ InitPass
    /\ InitResolverIdle
    /\ failBudget = 0
    /\ nodeBudget = MaxNodeEvents
    /\ queue = {}

\* the passes of the two PrivateNetworks run on two workers
ConcSpec == InitConc /\ [][Next]_vars

(* ----------------- a store that holds duplicate records ---------------- *)
\* the NetworkInterface a finished pass leaves for node nd of pn-a
SyncedNI(name, nd) ==
    [constructNetworkInterfaceForPrivateNetwork(
         "pn-a", nd, FormatAddress(1, Cidr("pn-a")), 1)
     EXCEPT !.name = name, !.mac = MacOf(1)]

\* pn-a is reconciled, its only node dup has its NetworkInterface, and
\* the store holds a second record that is a copy of it under a new name
InitDup ==
    /\ pns = [p \in {"pn-a"} |-> WithFinalizer(NewPN, finalizerName)]
    /\ \E dup \in Nodes :
         /\ nodes = {dup}
         /\ nis = {SyncedNI(1, dup), SyncedNI(2, dup)}
         /\ privateNics = {[id |-> 1, server |-> ServerOf(dup).id,
                            netID |-> NetID("pn-a")]}
    /\ pool = [c \in Cidrs |->
                 IF c = Cidr("pn-a") THEN [exists |-> TRUE, used |-> {1}]
                 ELSE [exists |-> FALSE, used |-> {}]]
    /\ servers = ClusterServers
    /\ InitPass
    /\ InitResolverIdle
    /\ failBudget = Unlimited
    /\ nodeBudget = Unlimited
    /\ queue = {}

DupSpec == InitDup /\ [][Next]_vars

(* ------------------------- resolver harness --------------------------- *)
\* provider identifiers handed to getServerFromNode
CandidateIDs ==
    { <<>>,
      <<"srv-1">>,
      Scheme,
      Scheme \o <<"srv-1">>,
      Scheme \o <<"srv-2">>,
      Scheme \o <<"instance", "/", "fr-par-2", "/", "srv-1">>,
      Scheme \o <<"instance", "/", "fr-par-2", "/", "srv-9">>,
      Scheme \o <<"instance", "/", "fr-par-2", "/">>,
      Scheme \o <<"instance", "/", "/", "srv-2">>,
      Scheme \o <<"instance", "/", "srv-1">>,
      Scheme \o <<"instance", "/", "fr-par-1", "/", "srv-1">>,
      <<"x">> \o Scheme \o <<"srv-2">>,
      Scheme \o Scheme \o <<"srv-2">> }

\* servers the cloud inventory is drawn from
CandidateServers ==
    {[id |-> <<"srv-1">>, zone |-> <<"fr-par-2">>, name |-> "node-1"],
     [id |-> <<"srv-2">>, zone |-> DefaultZone, name |-> "node-1"],
     [id |-> <<"srv-3">>, zone |-> <<"fr-par-2">>, name |-> "node-1"],
     [id |-> <<"srv-4">>, zone |-> DefaultZone, name |-> "node-2"]}

InitResolve ==
    /\ InitStore
    /\ InitPass
    /\ failBudget = Unlimited
    /\ nodeBudget = Unlimited
    /\ queue = {}
    /\ servers \in SUBSET CandidateServers
    /\ rNode \in [name : Nodes, providerID : CandidateIDs]
    /\ rCalls \in [gsOK : BOOLEAN, lsOK : BOOLEAN]
    /\ rOut = None

\* one call of getServerFromNode
Resolve ==
    /\ rNode # None
    /\ rOut = None
    /\ rOut' = getServerFromNode(servers, rNode, rCalls.gsOK, rCalls.lsOK)
    /\ UNCHANGED <<storeVars, extVars, passVars, envVars, queue, rNode,
                   rCalls>>

ResolveSpec == InitResolve /\ [][Resolve]_vars

(* ============================== claims ================================ *)
\* the NetworkInterface records labelled private-network = p
ChildrenOf(p) == {n \in nis : n.pn = p}
\* the pass of p has returned and no new one has started
Returned(p) == pc[p] = "idle" /\ result[p] # None
\* the pass of p takes a step
PassStep(p) == pc'[p] # pc[p] \/ loc'[p] # loc[p] \/ result'[p] # result[p]

\* C1 - deletion ordering: a PrivateNetwork that is gone from the store
\* (its generic finalizer was removed after it was marked for deletion)
\* has no child NetworkInterface record left in the store.
C1_DeletionOrdering ==
    \A p \in DOMAIN pns : ~pns[p].exists => ChildrenOf(p) = {}

\* a pass removed the generic finalizer of the marked pn-a, which is gone
C1_Witness ==
    /\ ~pns["pn-a"].exists
    /\ Returned("pn-a")
    /\ result["pn-a"].step = "RemoveFinalizer"
    /\ ~result["pn-a"].err

\* C2 - at most one NetworkInterface record carries a given
\* (private-network, node) pair of labels.
C2_AtMostOnePerPair ==
    \A p \in PNs, nd \in Nodes :
        Cardinality({n \in nis : n.pn = p /\ n.node = nd}) <= 1

\* a pass went over both nodes, each of which already had its record
C2_Witness ==
    /\ Returned("pn-a")
    /\ result["pn-a"].step = "getServerFromNode"
    /\ result["pn-a"].cause = ""
    /\ nodes = Nodes
    /\ \A nd \in Nodes : \E n \in nis : n.pn = "pn-a" /\ n.node = nd

\* C4 - synchronizer idempotence: no server holds two private NICs of one
\* network; a pass creates a private NIC only when the server holds none
\* for the network, and acquires an address or creates a NetworkInterface
\* only when the store holds no record for the (network, node) pair.
C4_NoDuplicateNIC ==
    \A c \in privateNics, d \in privateNics :
        (c.server = d.server /\ c.netID = d.netID) => c = d
C4_SyncStep ==
    \A p \in DOMAIN pns :
        /\ (pc[p] = "CreatePrivateNIC" /\ PassStep(p)
              /\ privateNics' # privateNics)
           => ~\E c \in privateNics :
                  c.server = loc[p].server.id /\ c.netID = NetID(p)
        /\ (pc[p] = "AcquireIP" /\ pool' # pool)
           => ~\E n \in nis : n.pn = p /\ n.node = loc[p].nodes[loc[p].i]
        /\ (pc[p] = "Create" /\ nis' # nis)
           => ~\E n \in nis : n.pn = p /\ n.node = loc[p].nodes[loc[p].i]
C4_Idempotent == [](C4_NoDuplicateNIC) /\ [][C4_SyncStep]_vars

\* a pass stopped after the private NIC was created and before the
\* NetworkInterface was, and the next pass found the NIC on the server and
\* went on to the address with it
C4_Witness ==
    /\ pc["pn-a"] = "AcquireIP"
    /\ loc["pn-a"].found # 0
    /\ loc["pn-a"].nic = loc["pn-a"].found
    /\ \E c \in privateNics : c.id = loc["pn-a"].found
    /\ ChildrenOf("pn-a") = {}

\* C5 - release idempotence: a not-found outcome of the address release,
\* of the prefix deletion or of the private NIC deletion never ends the
\* pass with an error.
C5_NotFoundIsSuccess ==
    \A p \in DOMAIN pns :
        (Returned(p)
           /\ result[p].step \in {"ReleaseIPFromPrefix", "DeletePrefix",
                                  "DeletePrivateNIC"}
           /\ result[p].cause = "not-found")
        => ~result[p].err

\* C6 - two-phase gating: an address is released, a private NIC deleted
\* or an address-specific finalizer removed by a pass only for a child the
\* pass listed with a deletion timestamp and without the generic
\* finalizer; a child listed without a deletion timestamp only gets the
\* delete request.
Gated(p) ==
    Child(p).deleted /\ ~ContainsFinalizer(Child(p), finalizerName)
C6_Step ==
    /\ \A c \in Cidrs :
         (pool'[c].exists /\ pool'[c].used # pool[c].used
            /\ ~(pool[c].used \subseteq pool'[c].used))
         => \E p \in DOMAIN pns :
               /\ Cidr(p) = c
               /\ pc[p] = "ReleaseIPFromPrefix"
               /\ Gated(p)
               /\ pool[c].used \ pool'[c].used
                    \subseteq ParseIP(SplitAddress(Child(p).address))
    /\ \A p \in DOMAIN pns :
         (PassStep(p) /\ privateNics' # privateNics
            /\ privateNics' \subseteq privateNics)
         => pc[p] = "DeletePrivateNIC" /\ Gated(p)
    /\ \A n \in nis :
         (ContainsFinalizer(n, ipFinalizerName)
            /\ ~\E m \in nis' : /\ m.name = n.name
                                 /\ ContainsFinalizer(m, ipFinalizerName))
         => \E p \in DOMAIN pns :
               /\ pc[p] = "Update"
               /\ Child(p).name = n.name
               /\ Gated(p)
    /\ \A p \in DOMAIN pns :
         (pc[p] = "Delete" /\ PassStep(p))
         => /\ ~Child(p).deleted
            /\ pool' = pool
            /\ privateNics' = privateNics
            /\ \A n \in nis : \E m \in nis' : m.name = n.name
            /\ \A m \in nis' :
                 \/ m \in nis
                 \/ \E n \in nis : /\ n.name = Child(p).name
                                   /\ m = [n EXCEPT !.deleted = TRUE]
C6_TwoPhase == [][C6_Step]_vars

\* the pass released the address of a child it had listed as marked and
\* without the generic finalizer
C6_Witness ==
    /\ pc["pn-a"] = "GetNode"
    /\ Gated("pn-a")
    /\ ParseIP(SplitAddress(Child("pn-a").address))
         \cap pool[Cidr("pn-a")].used = {}
    /\ Child("pn-a") \in nis

\* C9 - no silent failure: a pass in which a call failed returns an error
\* or a reschedule.
C9_NoSilentFailure ==
    \A p \in DOMAIN pns :
        (Returned(p) /\ result[p].cause # "")
        => (result[p].err \/ result[p].RequeueAfter > 0)

\* C10 - provider not caught up: a pass whose GetPrivateNetwork call
\* failed returns a fixed-delay reschedule and no error.
C10_ProviderNotCaughtUp ==
    \A p \in DOMAIN pns :
        (Returned(p) /\ result[p].step = "GetPrivateNetwork"
           /\ result[p].cause # "")
        => (result[p].RequeueAfter = RequeueDuration /\ ~result[p].err)

\* C7 - duplicate records: a pass that listed two or more NetworkInterface
\* records for a node creates no record, acquires no address and leaves
\* every record as it is, goes to no further node, and, unless a cloud
\* call for that node fails first, returns a fixed-delay reschedule
\* without error.
C7_Step ==
    \A p \in DOMAIN pns :
        (pc[p] \in {"getServerFromNode", "CreatePrivateNIC"}
           /\ Len(loc[p].nics) > 1)
        => /\ nis' = nis
           /\ pool' = pool
           /\ pc'[p] \in {pc[p], "CreatePrivateNIC", "idle"}
           /\ (pc'[p] = "idle"
                 /\ result'[p].cause \notin {"error", "resolve"})
              => /\ result'[p].cause = "count"
                 /\ result'[p].RequeueAfter = RequeueDuration
                 /\ ~result'[p].err
C8_Resolution ==
    rOut # None =>
      LET parsed == ParseProviderID(rNode.providerID)
          direct == IF parsed.instanceID # <<>> /\ rCalls.gsOK
                    THEN {sv \in servers :
                            /\ sv.id = parsed.instanceID
                            /\ sv.zone = EffectiveZone(parsed.zone)}
                    ELSE {}
          listed == {sv \in servers :
                       /\ sv.name = rNode.name
                       /\ sv.zone = EffectiveZone(parsed.zone)}
      IN  IF direct # {}
          THEN rOut.ok /\ rOut.server \in direct
          ELSE IF rCalls.lsOK /\ Cardinality(listed) = 1
               THEN rOut.ok /\ rOut.server \in listed
               ELSE /\ ~rOut.ok
                    /\ rOut.server = None
                    /\ rCalls.lsOK => rOut.kind = "count-mismatch"

\* the direct lookup of a full identifier failed and the listing in the
\* parsed zone returned two servers of that name
C8_Witness ==
    /\ rOut # None
    /\ rNode.providerID =
         Scheme \o <<"instance", "/", "fr-par-2", "/", "srv-9">>
    /\ Cardinality({sv \in servers : sv.name = rNode.name
                                      /\ sv.zone = <<"fr-par-2">>}) = 2
    /\ rCalls.lsOK
    /\ rOut.kind = "count-mismatch"

\* pn-a is marked for deletion or gone
Deleting(p) == ~pns[p].exists \/ pns[p].deleted
\* every current node has exactly one NetworkInterface of p
Synced(p) ==
    \A nd \in nodes :
        Cardinality({n \in nis : n.pn = p /\ n.node = nd}) = 1
\* no NetworkInterface of p belongs to a node that is not current
NoStaleNI(p) == \A n \in ChildrenOf(p) : n.node \in nodes
\* the pool has no address left for p: AcquireIP cannot succeed
Exhausted(p) == pool[Cidr(p)].used = IPs

\* C3 (as stated) - convergence: a PrivateNetwork that is not deleted
\* reaches and stays in a state where its NetworkInterfaces correspond
\* one-to-one to the current nodes.
C3_OneToOne ==
    <>[](Deleting("pn-a") \/ Exhausted("pn-a")
           \/ (Synced("pn-a") /\ NoStaleNI("pn-a")))

\* C3 (amended) - convergence: a PrivateNetwork that is not deleted
\* reaches and stays in a state where every current node has exactly one
\* NetworkInterface of it; records of nodes that left may remain.
C3_EveryNodeSynced ==
    <>[](Deleting("pn-a") \/ Exhausted("pn-a") \/ Synced("pn-a"))

\* both nodes are current and synchronized, and neither node events nor
\* failures are left to come
C3_Witness ==
    /\ ~Deleting("pn-a")
    /\ nodes = Nodes
    /\ Synced("pn-a")
    /\ nodeBudget = 0
    /\ failBudget = 0
    /\ Returned("pn-a")

\* C11 - node-change fan-out: a Node creation or deletion event whose
\* handler lists the PrivateNetworks adds a request for each
\* PrivateNetwork in the store to the queue; when the listing fails (the
\* step spends a failure) the queue is left as it is; in both cases the
\* handler changes nothing else, and nothing but a Node event adds a
\* request.
C11_Step ==
    /\ nodes' # nodes
       => /\ failBudget' # failBudget => queue' = queue
          /\ failBudget' = failBudget
             => queue' = queue \cup {p \in DOMAIN pns : pns[p].exists}
          /\ UNCHANGED <<pns, nis, pool, privateNics, servers, pc, loc,
                         result>>
    /\ ~(queue' \subseteq queue) => nodes' # nodes
SyncCalls == {"AddFinalizer", "GetPrivateNetwork", "ListNodes", "ListNics",
              "getServerFromNode", "CreatePrivateNIC", "AcquireIP",
              "Create", "StatusUpdate"}
\* n is a complete record of p for node nd, but for the NIC id and the MAC
WellFormed(n, p, nd, pl) ==
    /\ n.finalizers = {finalizerName, ipFinalizerName}
    /\ n.owner = p
    /\ n.pn = p
    /\ n.node = nd
    /\ n.nodeName = nd
    /\ ~n.deleted
    /\ \E ip \in pl[Cidr(p)].used : n.address = FormatAddress(ip, Cidr(p))

\* C12 - creation postcondition: the private NIC a pass goes on with is
\* attached to the server of the node for the network; the status update
\* that completes a creation leaves exactly one record for the node, with
\* both finalizers, the owner, the two labels, an address allocated in
\* the prefix of the network, the id of that NIC and its MAC address;
\* the pass leaves the records of the network alone otherwise, and when it
\* ends without a failed call every node it listed has exactly one
\* complete record.
C12_Step ==
    \A p \in DOMAIN pns :
      /\ (pc[p] \in {"getServerFromNode", "CreatePrivateNIC"}
            /\ pc'[p] = "AcquireIP")
         => \E c \in privateNics' :
               /\ c.id = loc'[p].nic
               /\ c.netID = NetID(p)
               /\ c.server = loc'[p].server.id
               /\ loc'[p].server.name = loc'[p].nodes[loc'[p].i]
      /\ (pc[p] = "StatusUpdate" /\ nis' # nis /\ PassStep(p))
         => LET nd == loc[p].nodes[loc[p].i]
                made == {n \in nis' : n.pn = p /\ n.node = nd}
            IN  /\ Cardinality(made) = 1
                /\ \A n \in made :
                      /\ WellFormed(n, p, nd, pool')
                      /\ n.nicID = loc[p].nic
                      /\ n.mac = MacOf(loc[p].nic)
                      /\ n.mac # 0
      /\ (pc[p] \in SyncCalls /\ pc[p] # "StatusUpdate")
         => \A n \in ChildrenOf(p) : n \in nis'
      /\ (pc[p] \in SyncCalls /\ pc'[p] = "idle" /\ result'[p].cause = "")
         => \A k \in 1..Len(loc[p].nodes) :
               LET nd == loc[p].nodes[k]
                   recs == {n \in nis' : n.pn = p /\ n.node = nd}
               IN  /\ Cardinality(recs) = 1
                   /\ \A n \in recs : WellFormed(n, p, nd, pool')
C12_CreationPostcondition == [][C12_Step]_vars

\* the scenario of one node: the pass of pn-a went through every call and
\* left the one record of node-1, with its MAC address
C12_Witness ==
    /\ Returned("pn-a")
    /\ result["pn-a"].step = "StatusUpdate"
    /\ result["pn-a"].cause = ""
    /\ nodes = {"node-1"}
    /\ \E n \in nis :
         /\ nis = {n}
         /\ n.node = "node-1"
         /\ n.mac = MacOf(n.nicID)
         /\ \E c \in privateNics : c.id = n.nicID /\ c.netID = NetID("pn-a")

\* C13 - no orphaned cloud attachment: when a pass removes the
\* address-specific finalizer of a child, the server backing the node of
\* the child holds no private NIC of the network, whether or not the Node
\* record still exists.
C13_Step ==
    \A p \in DOMAIN pns :
        (pc[p] = "Update" /\ nis' # nis /\ PassStep(p))
        => ~\E c \in privateNics :
               /\ c.server = ServerOf(Child(p).nodeName).id
               /\ c.netID = NetID(p)
C13_NoOrphanedNIC == [][C13_Step]_vars

\* the addresses of the pool that the record n holds
AddressOf(n) == ParseIP(SplitAddress(n.address))

\* the release of the address of a child takes effect once: a release
\* that changes the pool frees the address of the child and of no other
\* record, no address is acquired while a child is marked, and the
\* address is free when the address-specific finalizer goes
C14_ReleaseStep ==
    \A p \in DOMAIN pns :
      /\ (pc[p] = "ReleaseIPFromPrefix" /\ pool' # pool)
         => /\ pool[Cidr(p)].used \ pool'[Cidr(p)].used = AddressOf(Child(p))
            /\ \A m \in ChildrenOf(p) :
                  m.name # Child(p).name
                  => AddressOf(m) \cap AddressOf(Child(p)) = {}
      /\ (pc[p] = "AcquireIP" /\ pool' # pool)
         => \A n \in ChildrenOf(p) : ~n.deleted
      /\ (pc[p] = "Update" /\ nis' # nis /\ PassStep(p))
         => AddressOf(Child(p)) \cap pool[Cidr(p)].used = {}
C14_ReleaseOnce == [][C14_ReleaseStep]_vars

\* the deletion of the private NIC of a child takes effect once: no NIC
\* is attached for the network while a child is marked, and the server of
\* the child holds none when the address-specific finalizer goes
C14_NicStep ==
    \A p \in DOMAIN pns :
      /\ (pc[p] = "CreatePrivateNIC" /\ PassStep(p)
            /\ privateNics' # privateNics)
         => \A n \in ChildrenOf(p) : ~n.deleted
      /\ (pc[p] = "Update" /\ nis' # nis /\ PassStep(p))
         => \A c \in privateNics :
               c.netID = NetID(p)
               => c.server # ServerOf(Child(p).nodeName).id

\* C14 - cleanup exactly once: over the deletion passes of a
\* PrivateNetwork, failed and retried ones included, the address of every
\* child is released once and its private NIC deleted once before the
\* child is let go, and a retried release frees no address that another
\* record holds.
C14_CleanupOnce == [][C14_ReleaseStep /\ C14_NicStep]_vars

\* C15 - finalizer first: a pass attaches a private NIC, acquires an
\* address or creates a NetworkInterface only while the PrivateNetwork
\* record of the store carries the generic finalizer; a pass that cannot
\* persist the finalizer ends there with an error and has changed neither
\* the cloud, nor the used addresses, nor the NetworkInterface records.
C15_Step ==
    \A p \in DOMAIN pns :
      /\ (pc[p] \in {"CreatePrivateNIC", "AcquireIP", "Create"}
            /\ PassStep(p)
            /\ (privateNics' # privateNics \/ pool' # pool \/ nis' # nis))
         => /\ pns[p].exists
            /\ ContainsFinalizer(pns[p], finalizerName)
      /\ (pc[p] = "AddFinalizer" /\ PassStep(p))
         => /\ UNCHANGED <<nis, pool, privateNics>>
            /\ \/ /\ pc'[p] = "idle"
                  /\ result'[p].err
                  /\ pns' = pns
               \/ /\ pc'[p] = "GetPrivateNetwork"
                  /\ ContainsFinalizer(pns'[p], finalizerName)
      /\ (pc'[p] = "GetPrivateNetwork" /\ pc[p] # pc'[p])
         => ContainsFinalizer(pns'[p], finalizerName)
C15_FinalizerFirst == [][C15_Step]_vars

\* the pass of a PrivateNetwork that had no finalizer persisted it, and is
\* about to acquire the first address
C15_Witness ==
    /\ pc["pn-a"] = "AcquireIP"
    /\ ContainsFinalizer(pns["pn-a"], finalizerName)
    /\ ~pns["pn-a"].deleted
    /\ pool[Cidr("pn-a")].used = {}
    /\ nis = {}

\* the calls of the child loop of the deletion branch
ChildCalls == {"Delete", "ReleaseIPFromPrefix", "GetNode",
               "getServerFromNode/deletion", "DeletePrivateNIC", "Update"}

\* C16 - children gate network-level cleanup: a deletion pass that listed
\* children leaves the prefix and the PrivateNetwork record alone and,
\* when none of its calls failed, returns the fixed-delay reschedule
\* without error, also when no child is left at its end; the prefix is
\* deleted and the generic finalizer of the PrivateNetwork removed only by
\* a pass that listed no child, the prefix first, and that pass returns
\* without reschedule.
C16_Step ==
    \A p \in DOMAIN pns :
      /\ (PassStep(p)
            /\ \/ pc[p] \in ChildCalls
               \/ pc[p] = "ListChildren" /\ ListChildren(p) # <<>>)
         => /\ pool'[Cidr(p)].exists = pool[Cidr(p)].exists
            /\ pns'[p] = pns[p]
            /\ pc'[p] \in ChildCalls \cup {"idle"}
            /\ (pc'[p] = "idle" /\ result'[p].cause = "")
               => /\ result'[p].RequeueAfter = RequeueDuration
                  /\ ~result'[p].err
      /\ (pc[p] \in ChildCalls) => Len(loc[p].nics) > 0
      /\ (pc[p] \in {"DeletePrefix", "RemoveFinalizer"})
         => Len(loc[p].nics) = 0
      /\ (pool[Cidr(p)].exists /\ ~pool'[Cidr(p)].exists)
         => pc[p] = "DeletePrefix"
      /\ (ContainsFinalizer(pns[p], finalizerName)
            /\ ~ContainsFinalizer(pns'[p], finalizerName))
         => pc[p] = "RemoveFinalizer"
      /\ (pc'[p] = "RemoveFinalizer" /\ pc[p] # "RemoveFinalizer")
         => pc[p] = "DeletePrefix" /\ ~pool'[Cidr(p)].exists
      /\ (pc[p] = "RemoveFinalizer" /\ PassStep(p)
            /\ result'[p].cause = "")
         => /\ result'[p].RequeueAfter = 0
            /\ ~result'[p].err
            /\ ~ContainsFinalizer(pns'[p], finalizerName)
C16_ChildrenGate == [][C16_Step]_vars

\* a deletion pass cleaned up the only child it had listed and returned
\* the reschedule: no child is left, the prefix and the finalizer of pn-a
\* are still there
C16_Witness ==
    /\ Returned("pn-a")
    /\ result["pn-a"].step = "Update"
    /\ result["pn-a"].cause = ""
    /\ result["pn-a"].RequeueAfter = RequeueDuration
    /\ ChildrenOf("pn-a") = {}
    /\ pool[Cidr("pn-a")].exists
    /\ ContainsFinalizer(pns["pn-a"], finalizerName)

\* C17 - failure during child cleanup: a failed address release (other
\* than not-found), node lookup (other than not-found), node resolution
\* or private NIC deletion ends the pass with an error and no reschedule;
\* the failing step changes no record of the store, so the child keeps
\* its address-specific finalizer and the later children and the
\* PrivateNetwork stay as they are; the pass goes on from such a call only
\* when the call did what it is for.
C17_Step ==
    \A p \in DOMAIN pns :
      /\ (pc[p] \in {"ReleaseIPFromPrefix", "GetNode",
                      "getServerFromNode/deletion", "DeletePrivateNIC"}
            /\ PassStep(p))
         => /\ nis' = nis
            /\ pns' = pns
            /\ \/ /\ pc'[p] = "idle"
                  /\ result'[p].err
                  /\ result'[p].cause # ""
                  /\ result'[p].RequeueAfter = 0
                  /\ \A n \in nis' :
                        n.name = Child(p).name
                        => ContainsFinalizer(n, ipFinalizerName)
               \/ /\ pc[p] = "ReleaseIPFromPrefix"
                  /\ pc'[p] = "GetNode"
                  /\ AddressOf(Child(p)) \cap pool'[Cidr(p)].used = {}
               \/ /\ pc[p] = "GetNode"
                  /\ pc'[p] = "Update"
                  /\ Child(p).nodeName \notin nodes
               \/ /\ pc[p] = "GetNode"
                  /\ pc'[p] = "getServerFromNode/deletion"
                  /\ Child(p).nodeName \in nodes
               \/ /\ pc[p] = "getServerFromNode/deletion"
                  /\ pc'[p] \in {"DeletePrivateNIC", "Update"}
                  /\ loc'[p].server \in servers
               \/ /\ pc[p] = "DeletePrivateNIC"
                  /\ pc'[p] = "Update"
                  /\ \A c \in privateNics' : c.id # loc[p].nic
C17_CleanupFailure == [][C17_Step]_vars

\* the private NIC deletion failed after the address of the child had been
\* released: the pass returned the error and the child is still held by
\* its address-specific finalizer
C17_Witness ==
    /\ Returned("pn-a")
    /\ result["pn-a"].step = "DeletePrivateNIC"
    /\ result["pn-a"].cause = "error"
    /\ result["pn-a"].err
    /\ ContainsFinalizer(pns["pn-a"], finalizerName)
    /\ \E n \in ChildrenOf("pn-a") :
         /\ n.deleted
         /\ n.finalizers = {ipFinalizerName}
         /\ AddressOf(n) \cap pool[Cidr("pn-a")].used = {}

\* pn-a is marked for deletion and carries the generic finalizer
Marked(p) ==
    /\ pns[p].exists
    /\ pns[p].deleted
    /\ ContainsFinalizer(pns[p], finalizerName)
\* nothing of pn-a is left: no child, no prefix, no record
Gone(p) ==
    /\ ChildrenOf(p) = {}
    /\ ~pool[Cidr(p)].exists
    /\ ~ContainsFinalizer(pns[p], finalizerName)
    /\ ~pns[p].exists

\* C18 - deletion terminates: when passes keep running, marked children
\* get their generic finalizer cleared and only finitely many calls fail,
\* a PrivateNetwork that is marked for deletion with the generic finalizer
\* ends with every child removed, its prefix deleted and its generic
\* finalizer removed.
C18_DeletionTerminates == Marked("pn-a") ~> [](Gone("pn-a"))

\* the deletion of pn-a is under way after a call had failed: the pass is
\* about to let go the last child, whose generic finalizer was cleared,
\* whose address is released and whose private NIC is deleted
C18_Witness ==
    /\ Marked("pn-a")
    /\ pc["pn-a"] = "Update"
    /\ ChildrenOf("pn-a") = {Child("pn-a")}
    /\ Gated("pn-a")
    /\ Child("pn-a").nodeName \in nodes
    /\ AddressOf(Child("pn-a")) \cap pool[Cidr("pn-a")].used = {}
    /\ privateNics = {}
    /\ failBudget < MaxFailures

\* C19 - concurrent passes: with the passes of two PrivateNetworks
\* interleaved with each other, with node events and with deletion
\* requests, no two NetworkInterface records of one PrivateNetwork hold
\* the same address, and the address a pass acquires or puts on a new
\* record is held by no record of that PrivateNetwork that still carries
\* the address-specific finalizer.
C19_UniqueAddress ==
    \A n \in nis, m \in nis :
        (n.pn = m.pn /\ n.address = m.address) => n = m
C19_Step ==
    \A p \in DOMAIN pns :
      /\ (pc[p] = "AcquireIP" /\ pool' # pool /\ PassStep(p))
         => \A n \in ChildrenOf(p) :
               ContainsFinalizer(n, ipFinalizerName)
               => loc'[p].ip \notin AddressOf(n)
      /\ (pc[p] = "Create" /\ nis' # nis /\ PassStep(p))
         => \A m \in nis' \ nis :
               /\ AddressOf(m) # {}
               /\ \A n \in ChildrenOf(p) :
                     AddressOf(n) \cap AddressOf(m) = {}
C19_ConcurrentPasses == [](C19_UniqueAddress) /\ [][C19_Step]_vars

\* both passes are in flight: the pass of pn-b has just released the
\* address of its child, the pass of pn-a has acquired an address for
\* node-2 while its record for node-1 holds another
C19_Witness ==
    /\ pc["pn-b"] = "GetNode"
    /\ pool[Cidr("pn-b")].used = {}
    /\ Child("pn-b") \in nis
    /\ pc["pn-a"] = "Create"
    /\ loc["pn-a"].nodes[loc["pn-a"].i] = "node-2"
    /\ \E n \in ChildrenOf("pn-a") :
         /\ n.node = "node-1"
         /\ AddressOf(n) = AddressOf(Child("pn-b"))
         /\ loc["pn-a"].ip \notin AddressOf(n)

\* C20 - no leaked address: when a pass has returned, with or without an
\* error or a reschedule, every address that is allocated in the prefix
\* of the PrivateNetwork is the address of one of its NetworkInterface
\* records.
C20_NoLeakedAddress ==
    \A p \in DOMAIN pns :
        Returned(p)
        => \A ip \in pool[Cidr(p)].used :
               \E n \in ChildrenOf(p) : ip \in AddressOf(n)

\* C21 - status recovery: when passes keep running and only finitely many
\* calls fail, a PrivateNetwork that is not deleted reaches and stays in a
\* state where every NetworkInterface record has its MAC address, also a
\* record whose creating pass failed at the status update.
C21_StatusRecovery ==
    <>[](Deleting("pn-a") \/ \A n \in ChildrenOf("pn-a") : n.mac # 0)

\* C22 - missing object is terminal: a pass for a PrivateNetwork that is
\* not in the store ends at Get; when Get answers not-found it returns no
\* error and no reschedule; the pass creates no prefix, changes nothing at
\* the cloud and writes nothing to the store.
C22_Step ==
    \A p \in DOMAIN pns :
        (pc[p] = "idle" /\ ~pns[p].exists
           /\ (PassStep(p) \/ (p \in queue /\ p \notin queue')))
        => /\ pc'[p] = "idle"
           /\ loc'[p] = NoLoc
           /\ UNCHANGED <<pns, nis, nodes, pool, privateNics, servers>>
           /\ \/ result'[p] = Result(0, FALSE, "Get", "")
              \/ /\ result'[p] = Result(0, TRUE, "Get", "error")
                 /\ failBudget # 0
C22_MissingIsTerminal == [][C22_Step]_vars

\* pn-a is gone from the store and a pass for it returned at Get without
\* error; no prefix is there and the queue holds no request
C22_Witness ==
    /\ ~pns["pn-a"].exists
    /\ Returned("pn-a")
    /\ result["pn-a"] = Result(0, FALSE, "Get", "")
    /\ ~pool[Cidr("pn-a")].exists
    /\ nodes = Nodes
    /\ queue = {}

====
